---- MODULE Spec2Model ----
(***************************************************************************)
(* A model of visulization.py: the mask visualisation script of            *)
(* AutoSeg-SAM2.  Four specifications are defined over the same variables: *)
(*   Spec       the run of the script (loading, the count assertion, the   *)
(*              uid directories, the separate and the full compositor),    *)
(*              with a mask tensor abstracted to its number of objects;    *)
(*   SpecVideo  images_to_video on one directory listing;                  *)
(*   SpecSep    the separate compositor on one array element;              *)
(*   SpecFull   the full compositor on one array element.                  *)
(***************************************************************************)
EXTENDS Integers, Sequences, FiniteSets

VARIABLES
    \* ---- the run of the script
    vis_mode,        \* args.vis_mode
    final_output,    \* the .npy files on disk, in sorted name order: objects per tensor
    video_path,      \* the number of frame images on disk
    npy_list,        \* the loaded tensors (objects per tensor)
    image_list,      \* the loaded images (their frame indices)
    pc,              \* the position of the script
    err,             \* the exception that ended the run, "none" if none
    frame_id,        \* the frame loop's counter
    uid,             \* the per-uid video loop's counter
    uid_dirs,        \* the keys of the dict uid_dirs
    fs,              \* the paths created under output_dir/<level>/visualization
    combined,        \* frame index -> len(highlighted_images) of its combined image
    mp4,             \* the videos written: [path, frames]
    colors,          \* the colour table of full mode
    used,            \* full mode: [frame, k, color] for every colour looked up
    \* ---- images_to_video on one directory
    listing,         \* os.listdir(input_folder), in the order the OS gives
    images,          \* the local list images
    vpc,             \* the position inside images_to_video
    video,           \* the frames handed to imageio.mimwrite, <<>> if none
    wrote,           \* whether mimwrite was called
    \* ---- one array element (y, x, c) of one frame
    image_px,        \* image_array[y, x, c]
    mask_dtype,      \* dtype of the mask tensors
    masks_px,        \* masks[k][0][y, x] for each object k, as a fraction num/den
    color_ch,        \* colors[k][c] for each object k
    ppc,             \* the position inside the compositor
    obj,             \* the object loop's counter
    dark_px,         \* dark_image_array[y, x, c]
    highlighted_px,  \* highlighted_image_array[y, x, c] of object obj
    bool_mask_px,    \* bool_mask_image at (x, y): its three channels
    mask_combined,   \* mask_combined[y, x, c]
    blended_px       \* blended_image[y, x, c]

runVars == <<vis_mode, final_output, video_path, npy_list, image_list, pc, err,
             frame_id, uid, uid_dirs, fs, combined, mp4, colors, used>>
vidVars == <<listing, images, vpc, video, wrote>>
pixVars == <<image_px, mask_dtype, masks_px, color_ch, ppc, obj, dark_px,
             highlighted_px, bool_mask_px, mask_combined, blended_px>>
vars == <<runVars, vidVars, pixVars>>

\* ------------------------------------------------------------------ bounds
MaxFrames == 2      \* at most this many images, and this many mask files
MaxObjs == 2        \* at most this many objects in a mask tensor

Min(a, b) == IF a < b THEN a ELSE b
Max(a, b) == IF a > b THEN a ELSE b

RECURSIVE MaxOf(_)
\* max(len(masks) for masks in npy_list), -1 standing for the ValueError of max([])
MaxOf(s) == IF s = <<>> THEN -1 ELSE Max(Head(s), MaxOf(Tail(s)))

\* ------------------------------------------------------------------ file names
RECURSIVE ParseInt(_)
\* int(stem) of a string of decimal digits
ParseInt(ds) ==
    IF ds = <<>> THEN 0 ELSE 10 * ParseInt(SubSeq(ds, 1, Len(ds) - 1)) + ds[Len(ds)]

RECURSIVE Digits(_)
\* str(n) for n >= 0
Digits(n) == IF n < 10 THEN <<n>> ELSE Append(Digits(n \div 10), n % 10)

RECURSIVE ZeroPad(_, _)
\* the format specification 0<w>: zeros on the left up to width w
ZeroPad(ds, w) == IF Len(ds) >= w THEN ds ELSE ZeroPad(<<0>> \o ds, w)

\* f"{frame_id:05}.png"
FrameName(f) == [stem |-> ZeroPad(Digits(f), 5), ext |-> "png"]

\* img.endswith(".png")
EndsWithPng(name) == name.ext = "png"

\* the sort key of images_to_video: int(os.path.splitext(x)[0])
SortKey(name) == ParseInt(name.stem)

RECURSIVE LexLess(_, _)
\* str < str on digit strings
LexLess(a, b) ==
    IF b = <<>> THEN FALSE
    ELSE IF a = <<>> THEN TRUE
    ELSE IF a[1] # b[1] THEN a[1] < b[1]
    ELSE LexLess(Tail(a), Tail(b))

\* a sort without key=: names compared as strings
KeyLessByString(a, b) == LexLess(a.stem, b.stem)

\* the comparison list.sort(key=...) makes: by key, stable
KeyLess(a, b) == SortKey(a) < SortKey(b)

RECURSIVE Insert(_, _)
\* insert x into the sorted s behind every element that is not greater (stable)
Insert(s, x) ==
    IF s = <<>> THEN <<x>>
    ELSE IF KeyLess(x, s[1]) THEN <<x>> \o s
    ELSE <<s[1]>> \o Insert(Tail(s), x)

RECURSIVE SortByKey(_)
\* images.sort(key=lambda x: int(os.path.splitext(x)[0]))
SortByKey(s) ==
    IF s = <<>> THEN <<>> ELSE Insert(SortByKey(SubSeq(s, 1, Len(s) - 1)), s[Len(s)])

\* [img for img in os.listdir(input_folder) if img.endswith(".png")]
PngOnly(s) == SelectSeq(s, EndsWithPng)

\* ------------------------------------------------------------------ the run
Modes == {"full", "seperate", "both"}

Path(kind, u, f) == [kind |-> kind, uid |-> u, frame |-> f]

\* the paths below visualization/seperate, and the others
SepKinds == {"uid_dir", "uid_png", "sep_png", "videos_dir", "uid_mp4"}
FullKinds == {"full_dir", "full_png", "full_mp4"}

\* the outcome of "assert len(npy_list) == len(image_name_list)" when asserts are off
AssertSkipped(a, b) == TRUE

\* assert len(npy_list) == len(image_name_list)
AssertCount(a, b) == a = b

\* a loader that answers an empty list with an empty tensor
ShapeOfFirstOrZero(list) == IF list = <<>> THEN 0 ELSE list[1]

\* npy_list[0].shape[0], -1 standing for the IndexError of [][0]
ShapeOfFirst(list) == IF list = <<>> THEN -1 ELSE list[1]

\* the table sized by the first frame alone
NumMasksOfFirst(list) == IF list = <<>> THEN -1 ELSE list[1]

\* num_masks = max(len(masks) for masks in npy_list)
NumMasks(list) == MaxOf(list)

\* the colours random.randint can give, abstracted to two values per colour
ColorIds == {"c1", "c2"}

\* len(zip(npy_list, image_list))
ZipLen == Min(Len(npy_list), Len(image_list))

RECURSIVE SeqOfSet(_)
\* os.listdir of a folder holding the names S, in some order
SeqOfSet(S) ==
    IF S = {} THEN <<>>
    ELSE LET x == CHOOSE y \in S : TRUE IN <<x>> \o SeqOfSet(S \ {x})

\* images_to_video(uid_folder, ...) on the folder of uid u: the sorted frame indices
FolderFrames(u) ==
    LET names == SeqOfSet({FrameName(p.frame) : p \in {q \in fs : q.kind = "uid_png" /\ q.uid = u}})
        sorted == SortByKey(PngOnly(names))
    IN [i \in 1..Len(sorted) |-> SortKey(sorted[i])]

RunIdle ==
    /\ vis_mode = "full" /\ final_output = <<>> /\ video_path = 0
    /\ npy_list = <<>> /\ image_list = <<>> /\ pc = "idle" /\ err = "none"
    /\ frame_id = 0 /\ uid = 0 /\ uid_dirs = {} /\ fs = {} /\ combined = <<>>
    /\ mp4 = {} /\ colors = <<>> /\ used = {}

VidIdle ==
    /\ listing = <<>> /\ images = <<>> /\ vpc = "idle" /\ video = <<>> /\ wrote = FALSE

PixIdle ==
    /\ image_px = 0 /\ mask_dtype = "bool" /\ masks_px = <<>> /\ color_ch = <<>>
    /\ ppc = "idle" /\ obj = 0 /\ dark_px = 0 /\ highlighted_px = 0
    /\ bool_mask_px = <<>> /\ mask_combined = 0 /\ blended_px = 0

\* the state after parse_args: the inputs are on disk, nothing is loaded.  Every
\* mask tensor holds at least one object (an empty tensor gives an image of width 0,
\* which the model leaves out); the output directories start empty
Init ==
    /\ vis_mode \in Modes
    /\ video_path \in 0..MaxFrames
    /\ final_output \in UNION {[1..n -> 1..MaxObjs] : n \in 0..MaxFrames}
    /\ npy_list = <<>> /\ image_list = <<>>
    /\ pc = "load" /\ err = "none"
    /\ frame_id = 0 /\ uid = 0 /\ uid_dirs = {} /\ fs = {} /\ combined = <<>>
    /\ mp4 = {} /\ colors = <<>> /\ used = {}
    /\ VidIdle /\ PixIdle

\* lines 45-55: list, sort and load the images and the mask tensors
Load ==
    /\ pc = "load"
    /\ npy_list' = final_output
    /\ image_list' = [i \in 1..video_path |-> i - 1]
    /\ pc' = "assert"
    /\ UNCHANGED <<vis_mode, final_output, video_path, err, frame_id, uid, uid_dirs,
                   fs, combined, mp4, colors, used>>

\* lines 56-57: the count assertion
CountAssertion ==
    /\ pc = "assert"
    /\ IF AssertCount(Len(npy_list), Len(image_list))
       THEN pc' = "uid_dirs" /\ err' = err
       ELSE pc' = "error" /\ err' = "AssertionError"
    /\ UNCHANGED <<vis_mode, final_output, video_path, npy_list, image_list, frame_id,
                   uid, uid_dirs, fs, combined, mp4, colors, used>>

\* lines 60-67 and 112: the uid directories, made in every mode, then the mode guards
MakeUidDirs ==
    /\ pc = "uid_dirs"
    /\ LET n0 == ShapeOfFirst(npy_list) IN
       IF n0 < 0
       THEN /\ pc' = "error" /\ err' = "IndexError"
            /\ UNCHANGED <<uid_dirs, fs>>
       ELSE /\ uid_dirs' = 0..(n0 - 1)
            /\ fs' = fs \cup {Path("uid_dir", u, -1) : u \in 0..(n0 - 1)}
            /\ pc' = IF vis_mode \in {"seperate", "both"} THEN "sep_frames" ELSE "full_setup"
            /\ err' = err
    /\ UNCHANGED <<vis_mode, final_output, video_path, npy_list, image_list, frame_id,
                   uid, combined, mp4, colors, used>>

\* lines 70-102: one frame of the separate loop; uid_dirs[uid] raises KeyError for a
\* uid the first tensor does not have, after the images of the uids before it are saved
SepFrame ==
    /\ pc = "sep_frames"
    /\ frame_id < ZipLen
    /\ LET n == npy_list[frame_id + 1]
           saved == {u \in 0..(n - 1) : \A v \in 0..u : v \in uid_dirs}
           pngs == {Path("uid_png", u, frame_id) : u \in saved}
       IN IF saved # 0..(n - 1)
          THEN /\ fs' = fs \cup pngs
               /\ pc' = "error" /\ err' = "KeyError"
               /\ UNCHANGED <<frame_id, combined>>
          ELSE /\ fs' = fs \cup pngs \cup {Path("sep_png", -1, frame_id)}
               /\ combined' = Append(combined, n)
               /\ frame_id' = frame_id + 1
               /\ UNCHANGED <<pc, err>>
    /\ UNCHANGED <<vis_mode, final_output, video_path, npy_list, image_list, uid,
                   uid_dirs, mp4, colors, used>>

\* lines 104-105: after the last frame, the directory of the per-uid videos
SepVideosDir ==
    /\ pc = "sep_frames"
    /\ frame_id = ZipLen
    /\ fs' = fs \cup {Path("videos_dir", -1, -1)}
    /\ uid' = 0
    /\ pc' = "sep_videos"
    /\ UNCHANGED <<vis_mode, final_output, video_path, npy_list, image_list, err,
                   frame_id, uid_dirs, combined, mp4, colors, used>>

\* lines 106-109: images_to_video for one uid of range(len(uid_dirs))
SepVideo ==
    /\ pc = "sep_videos"
    /\ uid < Cardinality(uid_dirs)
    /\ LET frames == FolderFrames(uid) IN
       IF frames = <<>>
       THEN UNCHANGED <<fs, mp4>>
       ELSE /\ fs' = fs \cup {Path("uid_mp4", uid, -1)}
            /\ mp4' = mp4 \cup {[path |-> Path("uid_mp4", uid, -1), frames |-> frames]}
    /\ uid' = uid + 1
    /\ UNCHANGED <<vis_mode, final_output, video_path, npy_list, image_list, pc, err,
                   frame_id, uid_dirs, combined, colors, used>>

\* line 112: the end of the separate block and the guard of the full block
SepDone ==
    /\ pc = "sep_videos"
    /\ uid = Cardinality(uid_dirs)
    /\ pc' = IF vis_mode \in {"full", "both"} THEN "full_setup" ELSE "done"
    /\ UNCHANGED <<vis_mode, final_output, video_path, npy_list, image_list, err,
                   frame_id, uid, uid_dirs, fs, combined, mp4, colors, used>>

\* lines 113-130: the output directory and the colour table
FullSetup ==
    /\ pc = "full_setup"
    /\ fs' = fs \cup {Path("full_dir", -1, -1)}
    /\ LET num_masks == NumMasks(npy_list) IN
       IF num_masks < 0
       THEN /\ pc' = "error" /\ err' = "ValueError"
            /\ UNCHANGED <<colors, frame_id>>
       ELSE /\ colors' \in [1..num_masks -> ColorIds]
            /\ frame_id' = 0
            /\ pc' = "full_frames"
            /\ err' = err
    /\ UNCHANGED <<vis_mode, final_output, video_path, npy_list, image_list, uid,
                   uid_dirs, combined, mp4, used>>

\* lines 131-146: one frame of the full loop
FullFrame ==
    /\ pc = "full_frames"
    /\ frame_id < ZipLen
    /\ LET n == npy_list[frame_id + 1] IN
       IF n > 0 /\ Len(colors) = 0
       THEN /\ pc' = "error" /\ err' = "ZeroDivisionError"
            /\ UNCHANGED <<used, fs, frame_id>>
       ELSE /\ used' = used \cup
                  {[frame |-> frame_id, k |-> i, color |-> colors[(i % Len(colors)) + 1]] :
                       i \in 0..(n - 1)}
            /\ fs' = fs \cup {Path("full_png", -1, frame_id)}
            /\ frame_id' = frame_id + 1
            /\ UNCHANGED <<pc, err>>
    /\ UNCHANGED <<vis_mode, final_output, video_path, npy_list, image_list, uid,
                   uid_dirs, combined, mp4, colors>>

\* lines 148-150: the video of the frames just written, in output_path_list order
FullVideo ==
    /\ pc = "full_frames"
    /\ frame_id = ZipLen
    /\ fs' = fs \cup {Path("full_mp4", -1, -1)}
    /\ mp4' = mp4 \cup {[path |-> Path("full_mp4", -1, -1),
                         frames |-> [i \in 1..ZipLen |-> i - 1]]}
    /\ pc' = "done"
    /\ UNCHANGED <<vis_mode, final_output, video_path, npy_list, image_list, err,
                   frame_id, uid, uid_dirs, combined, colors, used>>

Next ==
    \/ (Load /\ UNCHANGED <<vidVars, pixVars>>)
    \/ (CountAssertion /\ UNCHANGED <<vidVars, pixVars>>)
    \/ (MakeUidDirs /\ UNCHANGED <<vidVars, pixVars>>)
    \/ (SepFrame /\ UNCHANGED <<vidVars, pixVars>>)
    \/ (SepVideosDir /\ UNCHANGED <<vidVars, pixVars>>)
    \/ (SepVideo /\ UNCHANGED <<vidVars, pixVars>>)
    \/ (SepDone /\ UNCHANGED <<vidVars, pixVars>>)
    \/ (FullSetup /\ UNCHANGED <<vidVars, pixVars>>)
    \/ (FullFrame /\ UNCHANGED <<vidVars, pixVars>>)
    \/ (FullVideo /\ UNCHANGED <<vidVars, pixVars>>)

Spec == Init /\ [][Next]_vars

\* ------------------------------------------------------------------ images_to_video
MaxFiles == 3       \* at most this many entries in the folder

\* file name stems: "1", "2", "10" (string order differs from integer order) and "01"
Stems == {<<1>>, <<2>>, <<1, 0>>, <<0, 1>>}

\* the entries a folder can hold: frames and other files
Names == [stem : Stems, ext : {"png", "txt"}]

\* os.listdir(input_folder): distinct names, in an order the code does not control
Listings ==
    {s \in UNION {[1..n -> Names] : n \in 0..MaxFiles} :
        \A i, j \in DOMAIN s : i # j => s[i] # s[j]}

InitVideo ==
    /\ listing \in Listings
    /\ images = <<>> /\ vpc = "list" /\ video = <<>> /\ wrote = FALSE
    /\ RunIdle /\ PixIdle

\* line 12: the .png entries of the listing
ListPng ==
    /\ vpc = "list"
    /\ images' = PngOnly(listing)
    /\ vpc' = "sort"
    /\ UNCHANGED <<listing, video, wrote>>

\* line 13: sort by the integer value of the stem
SortImages ==
    /\ vpc = "sort"
    /\ images' = SortByKey(images)
    /\ vpc' = "guard"
    /\ UNCHANGED <<listing, video, wrote>>

\* lines 15-17: no image: print and return
ReturnEmpty ==
    /\ vpc = "guard"
    /\ images = <<>>
    /\ vpc' = "returned"
    /\ UNCHANGED <<listing, images, video, wrote>>

\* lines 19-20: read every image in order and write the video
WriteVideo ==
    /\ vpc = "guard"
    /\ images # <<>>
    /\ video' = images
    /\ wrote' = TRUE
    /\ vpc' = "done"
    /\ UNCHANGED <<listing, images>>

NextVideo ==
    \/ (ListPng /\ UNCHANGED <<runVars, pixVars>>)
    \/ (SortImages /\ UNCHANGED <<runVars, pixVars>>)
    \/ (ReturnEmpty /\ UNCHANGED <<runVars, pixVars>>)
    \/ (WriteVideo /\ UNCHANGED <<runVars, pixVars>>)

SpecVideo == InitVideo /\ [][NextVideo]_vars

\* ------------------------------------------------------------------ array elements
MaxMaskInt == 2     \* an integer mask holds values 0..MaxMaskInt
SoftDen == 2        \* a soft mask holds the values k/SoftDen, 0 <= k <= SoftDen

U8 == 256           \* the modulus of uint8 arithmetic
WhiteLevel == 255   \* the factor of line 84 and the upper clip bound of line 141
AlphaNum == 5033165 \* the brightness factor 0.3 as a float32 is AlphaNum / AlphaDen
AlphaDen == 16777216
ImageWeight == 7    \* the weights 0.7 and 0.3 of line 143, in tenths
MaskWeight == 3

Dtypes == {"bool", "uint8", "float32"}

\* the values a mask element of each dtype takes in the model
MaskVals(dtype) ==
    CASE dtype = "bool" -> {[num |-> b, den |-> 1] : b \in 0..1}
      [] dtype = "uint8" -> {[num |-> v, den |-> 1] : v \in 0..MaxMaskInt}
      [] dtype = "float32" -> {[num |-> k, den |-> SoftDen] : k \in 0..SoftDen}

\* a darkening that rounds to the nearest integer
BrightnessRounded(p) == (3 * p + 5) \div 10

\* ImageEnhance.Brightness(image).enhance(0.3): Image.blend of a black image and the
\* image with the float32 factor 0.3, the product cast to uint8 (truncated)
Brightness(p) == (p * AlphaNum) \div AlphaDen

\* the condition of np.where: an element is true when it is not zero
Truthy(m) == m.num # 0

\* np.where(current_mask[:, :, np.newaxis], image_array, dark_image_array)
Where(m, a, b) == IF Truthy(m) THEN a ELSE b

\* (current_mask * 255).astype(np.uint8): the product in the dtype numpy gives it
\* (int64 for bool, uint8 for uint8, float for float), then the cast to uint8
Times255AsUint8(dtype, m) ==
    CASE dtype = "bool" -> (m.num * WhiteLevel) % U8
      [] dtype = "uint8" -> ((m.num * WhiteLevel) % U8) % U8
      [] dtype = "float32" -> ((m.num * WhiteLevel) \div m.den) % U8

\* Image.fromarray(a 2-D uint8 array).convert("RGB"): the grey level in each channel
ConvertRGB(v) == <<v, v, v>>

\* (mask[0] > 0).astype(np.uint8)
MaskBinary(m) == IF m.num > 0 THEN 1 ELSE 0

\* mask_combined[:, :, j] += mask_binary * color[j] on a uint8 array
AddUint8(acc, x) == (acc + x) % U8

\* np.clip(mask_combined, 0, 255)
Clip(v) == IF v < 0 THEN 0 ELSE IF v > WhiteLevel THEN WhiteLevel ELSE v

\* cv2.addWeighted(image_np, 0.7, mask_combined, 0.3, 0) on uint8: the weighted sum
\* in floating point, rounded to the nearest integer and saturated; at an exact tie
\* the float error decides, so either neighbour can come out
AddWeighted(a, b) ==
    {r \in 0..WhiteLevel :
        LET d == 10 * r - (ImageWeight * a + MaskWeight * b) IN d >= -5 /\ d <= 5}

\* the colour channel values of the model: 100 + 200 and 200 + 255 pass 255
ColorSamples == {0, 100, 200, 255}

\* ---- the separate compositor on one element, for one uid
InitSep ==
    /\ image_px \in 0..WhiteLevel
    /\ mask_dtype \in Dtypes
    /\ \E m \in MaskVals(mask_dtype) : masks_px = <<m>>
    /\ color_ch = <<>> /\ ppc = "darken" /\ obj = 0 /\ dark_px = 0
    /\ highlighted_px = 0 /\ bool_mask_px = <<>> /\ mask_combined = 0 /\ blended_px = 0
    /\ RunIdle /\ VidIdle

\* lines 72-73: the darkened image
SepDarken ==
    /\ ppc = "darken"
    /\ dark_px' = Brightness(image_px)
    /\ ppc' = "highlight"
    /\ UNCHANGED <<image_px, mask_dtype, masks_px, color_ch, obj, highlighted_px,
                   bool_mask_px, mask_combined, blended_px>>

\* lines 78-82: the original where the mask is true, the darkened image elsewhere
SepHighlight ==
    /\ ppc = "highlight"
    /\ highlighted_px' = Where(masks_px[1], image_px, dark_px) % U8
    /\ ppc' = "bool_mask"
    /\ UNCHANGED <<image_px, mask_dtype, masks_px, color_ch, obj, dark_px,
                   bool_mask_px, mask_combined, blended_px>>

\* lines 84-85: the mask image
SepBoolMask ==
    /\ ppc = "bool_mask"
    /\ bool_mask_px' = ConvertRGB(Times255AsUint8(mask_dtype, masks_px[1]))
    /\ ppc' = "sep_done"
    /\ UNCHANGED <<image_px, mask_dtype, masks_px, color_ch, obj, dark_px,
                   highlighted_px, mask_combined, blended_px>>

NextSep ==
    \/ (SepDarken /\ UNCHANGED <<runVars, vidVars>>)
    \/ (SepHighlight /\ UNCHANGED <<runVars, vidVars>>)
    \/ (SepBoolMask /\ UNCHANGED <<runVars, vidVars>>)

SpecSep == InitSep /\ [][NextSep]_vars

\* ---- the full compositor on one element of a frame of 1..MaxObjs objects
InitFull ==
    /\ image_px \in 0..WhiteLevel
    /\ mask_dtype \in Dtypes
    /\ \E n \in 1..MaxObjs :
          /\ masks_px \in [1..n -> MaskVals(mask_dtype)]
          /\ color_ch \in [1..n -> ColorSamples]
    /\ ppc = "zeros" /\ obj = 0 /\ dark_px = 0
    /\ highlighted_px = 0 /\ bool_mask_px = <<>> /\ mask_combined = 0 /\ blended_px = 0
    /\ RunIdle /\ VidIdle

\* lines 132-133: the zero accumulator
FullZeros ==
    /\ ppc = "zeros"
    /\ mask_combined' = 0
    /\ obj' = 0
    /\ ppc' = "accumulate"
    /\ UNCHANGED <<image_px, mask_dtype, masks_px, color_ch, dark_px, highlighted_px,
                   bool_mask_px, blended_px>>

\* lines 135-140: one object of the loop adds its colour where its mask is > 0
FullAccumulate ==
    /\ ppc = "accumulate"
    /\ obj < Len(masks_px)
    /\ mask_combined' = AddUint8(mask_combined, MaskBinary(masks_px[obj + 1]) * color_ch[obj + 1])
    /\ obj' = obj + 1
    /\ UNCHANGED <<image_px, mask_dtype, masks_px, color_ch, ppc, dark_px,
                   highlighted_px, bool_mask_px, blended_px>>

\* line 141: the clip, after the loop
FullClip ==
    /\ ppc = "accumulate"
    /\ obj = Len(masks_px)
    /\ mask_combined' = Clip(mask_combined)
    /\ ppc' = "blend"
    /\ UNCHANGED <<image_px, mask_dtype, masks_px, color_ch, obj, dark_px,
                   highlighted_px, bool_mask_px, blended_px>>

\* lines 143-146: the blend, written to the frame's file
FullBlend ==
    /\ ppc = "blend"
    /\ blended_px' \in AddWeighted(image_px, mask_combined)
    /\ ppc' = "full_done"
    /\ UNCHANGED <<image_px, mask_dtype, masks_px, color_ch, obj, dark_px,
                   highlighted_px, bool_mask_px, mask_combined>>

NextFull ==
    \/ (FullZeros /\ UNCHANGED <<runVars, vidVars>>)
    \/ (FullAccumulate /\ UNCHANGED <<runVars, vidVars>>)
    \/ (FullClip /\ UNCHANGED <<runVars, vidVars>>)
    \/ (FullBlend /\ UNCHANGED <<runVars, vidVars>>)

SpecFull == InitFull /\ [][NextFull]_vars

\* ------------------------------------------------------------------ properties
SepMode == vis_mode \in {"seperate", "both"}
SepPaths == {p \in fs : p.kind \in SepKinds}
FullPaths == {p \in fs : p.kind \in FullKinds}
CountsEqual == Len(final_output) = video_path
CountsVary == \E i, j \in DOMAIN final_output : final_output[i] # final_output[j]

RECURSIVE SumColors(_)
\* the sum of the colour channel of the first i objects whose mask is > 0, unbounded
SumColors(i) ==
    IF i = 0 THEN 0
    ELSE SumColors(i - 1) + (IF masks_px[i].num > 0 THEN color_ch[i] ELSE 0)

\* x is a nearest integer to t/10
Nearest(x, t) == 10 * x - t >= -5 /\ 10 * x - t <= 5

\* C1: full mode: the written element is the nearest integer to
\* 0.7*original + 0.3*min(255, sum of the colours of the masks covering the pixel)
C1_SaturatedBlend ==
    ppc = "full_done" =>
        /\ blended_px \in 0..WhiteLevel
        /\ Nearest(blended_px, 7 * image_px + 3 * Min(WhiteLevel, SumColors(Len(masks_px))))

\* C2 as stated: the highlighted element is the original where the mask is true and
\* the nearest integer to 0.3*original elsewhere
C2_HighlightRounds ==
    ppc \in {"bool_mask", "sep_done"} =>
        IF masks_px[1].num # 0
        THEN highlighted_px = image_px
        ELSE Nearest(highlighted_px, 3 * image_px)

\* C2 as amended: the highlighted element is the original where the mask is true and
\* floor(0.3*original) elsewhere
C2_HighlightTruncates ==
    ppc \in {"bool_mask", "sep_done"} =>
        IF masks_px[1].num # 0
        THEN highlighted_px = image_px
        ELSE highlighted_px = (3 * image_px) \div 10

\* an element outside the mask whose darkened value is not the rounded one: 9 -> 2
C2_Witness ==
    /\ ppc = "sep_done"
    /\ masks_px[1].num = 0
    /\ image_px = 9
    /\ highlighted_px = 2

\* C3: the mask image is 0 in all three channels where the mask is false (not > 0)
\* and 255 in all three where it is true, for every mask value
C3_BinaryMaskImage ==
    ppc = "sep_done" =>
        bool_mask_px = IF masks_px[1].num > 0
                       THEN <<WhiteLevel, WhiteLevel, WhiteLevel>>
                       ELSE <<0, 0, 0>>

\* C4: images_to_video hands the encoder exactly the .png entries, each once, in
\* ascending order of the integer value of the stem; with no .png entry it returns
\* without writing a video
C4_VideoFrames ==
    vpc \in {"done", "returned"} =>
        LET pngs == {listing[i] : i \in {j \in DOMAIN listing : listing[j].ext = "png"}} IN
        IF pngs = {}
        THEN vpc = "returned" /\ ~wrote /\ video = <<>>
        ELSE /\ vpc = "done" /\ wrote
             /\ Len(video) = Cardinality(pngs)
             /\ {video[i] : i \in DOMAIN video} = pngs
             /\ \A i, j \in DOMAIN video :
                    i < j => ParseInt(video[i].stem) <= ParseInt(video[j].stem)

\* a video of "2.png" before "10.png", from a folder that lists them the other way
\* round beside a file that is no .png
C4_Witness ==
    /\ vpc = "done"
    /\ Len(listing) = 3
    /\ listing[1] = [stem |-> <<1, 0>>, ext |-> "png"]
    /\ listing[2] = [stem |-> <<2>>, ext |-> "txt"]
    /\ listing[3] = [stem |-> <<2>>, ext |-> "png"]
    /\ video = <<listing[3], listing[1]>>

FullSetupDone == Path("full_dir", -1, -1) \in fs /\ pc # "error"

\* C5: the colour table has one colour per object of the largest tensor, it is made
\* once and not changed while frames are processed, and every colour looked up for
\* object k is colors[k mod len(colors)], so the same on every frame
C5_ColorTable ==
    /\ [](FullSetupDone =>
            /\ Len(colors) = MaxOf(npy_list)
            /\ \A u \in used :
                  /\ Len(colors) > 0
                  /\ (u.k % Len(colors)) + 1 \in DOMAIN colors
                  /\ u.color = colors[(u.k % Len(colors)) + 1]
                  /\ \A v \in used : v.k = u.k => v.color = u.color)
    /\ [][colors' = colors \/ (pc = "full_setup" /\ colors = <<>>)]_vars

\* a finished full run over two frames with different object counts
C5_Witness ==
    /\ pc = "done"
    /\ CountsVary
    /\ Len(colors) = MaxObjs
    /\ \E u, v \in used : u.k = v.k /\ u.frame # v.frame
    /\ \E u \in used : u.k = MaxObjs - 1

\* C6: with different counts the run ends at the assertion and nothing is created,
\* in every mode; with equal counts the assertion does not fail
C6_CountAssertion ==
    /\ ~CountsEqual =>
          /\ pc \in {"load", "assert", "error"}
          /\ (pc = "error" => err = "AssertionError")
          /\ fs = {} /\ mp4 = {}
    /\ CountsEqual => err # "AssertionError"

\* a run stopped by the assertion
C6_Witness ==
    /\ ~CountsEqual
    /\ vis_mode = "both"
    /\ Len(npy_list) > 0
    /\ pc = "error" /\ err = "AssertionError"

\* the frames the separate loop has gone through
SepFramesDone ==
    IF pc = "sep_frames" THEN frame_id
    ELSE IF pc \in {"sep_videos", "full_setup", "full_frames", "done"} THEN ZipLen
    ELSE 0

\* C7: separate mode, object counts differing between frames: no error, and every
\* frame gets one image per object of its tensor and a combined image as wide as
\* its object count
C7_VaryingCounts ==
    (SepMode /\ CountsEqual /\ CountsVary) =>
        /\ err = "none"
        /\ \A f \in 0..(SepFramesDone - 1) :
              /\ \A u \in 0..(npy_list[f + 1] - 1) : Path("uid_png", u, f) \in fs
              /\ Path("sep_png", -1, f) \in fs
              /\ combined[f + 1] = npy_list[f + 1]

\* C8: full mode leaves visualization/seperate alone, separate mode leaves the full
\* outputs alone, and in mode both the separate outputs are all written before the
\* first full output and both sets are there at the end
C8_ModeSelects ==
    /\ vis_mode = "full" => SepPaths = {}
    /\ vis_mode = "seperate" => FullPaths = {}
    /\ FullPaths # {} => pc \in {"full_frames", "done", "error"}
    /\ (vis_mode = "both" /\ pc = "done") =>
          /\ Path("full_mp4", -1, -1) \in fs
          /\ \A f \in 0..(ZipLen - 1) :
                Path("full_png", -1, f) \in fs /\ Path("sep_png", -1, f) \in fs

\* the frames in which object n is present, ascending
FramesWith(n) ==
    SelectSeq([i \in 1..Len(npy_list) |-> i - 1], LAMBDA f : npy_list[f + 1] > n)

\* C9: the per-uid videos are encoded after the images of all frames are written,
\* one for every object id of any frame, holding the frames the object is in
C9_VideoPerObject ==
    (SepMode /\ CountsEqual /\ video_path > 0) =>
        /\ (\E p \in fs : p.kind \in {"videos_dir", "uid_mp4"}) =>
              \A f \in 0..(ZipLen - 1) : Path("sep_png", -1, f) \in fs
        /\ pc \in {"full_setup", "full_frames", "done", "error"} =>
              \A n \in 0..(MaxOf(npy_list) - 1) :
                  [path |-> Path("uid_mp4", n, -1), frames |-> FramesWith(n)] \in mp4

\* C10: no image and no mask file: the assertion passes, the run ends with the
\* IndexError of npy_list[0], nothing is created and no video is encoded
C10_EmptyInput ==
    (final_output = <<>> /\ video_path = 0) =>
        /\ err # "AssertionError"
        /\ pc \in {"load", "assert", "uid_dirs", "error"}
        /\ (pc = "error" => err = "IndexError")
        /\ fs = {} /\ mp4 = {}

\* the run on empty input, ended
C10_Witness ==
    /\ final_output = <<>> /\ video_path = 0
    /\ vis_mode = "seperate"
    /\ pc = "error" /\ err = "IndexError"

====
